---- MODULE Spec2Model ----
(***************************************************************************)
(* A model of the ride-hailing client's two stateful providers:            *)
(*   - LocationProvider (src/src/contexts/LocationContext.tsx): permission, *)
(*     single-shot fixes and the continuous position watch;                 *)
(*   - SocketProvider (src/unnamed/part_000): the socket.io channel that is *)
(*     created from the credentials of AuthProvider;                        *)
(*   - AuthProvider (src/src/contexts/AuthContext.tsx), the trip arithmetic *)
(*     and the screens Home and TripBooking that read the providers.        *)
(* Every handler (a function of a provider, a promise continuation, a       *)
(* platform or socket event callback) is one action: it reads the state of  *)
(* the render it was created in and its state setters take effect when it   *)
(* returns.                                                                 *)
(***************************************************************************)
EXTENDS Integers, Sequences, FiniteSets, TLC

\* ------------------------------------------------------------------ bounds
\* hardware watch ids the platform hands out (Geolocation.watchPosition)
MaxWatches == 2
\* distinct positions the hardware reports
MaxPos == 1
\* single-shot fixes (getCurrentPosition) in flight
MaxFix == 1
\* sockets io() creates
MaxSockets == 3
\* packets a socket that is not connected keeps in its send buffer
MaxBuffer == 1
\* sockets created in the runs that follow the subscriptions
MaxEventSockets == 2
\* longest distance passed to calculateETA and to the fare, in quarter km
MaxDistance == 130
\* highest average speed passed to calculateETA, in km/h
MaxSpeed == 30
\* longest ETA passed to the fare, in minutes
MaxMinutes == 5
\* requests of AuthProvider awaited at the same time
MaxRequests == 2

VARIABLES
    \* ---- LocationProvider state (useState, LocationContext.tsx:39-42)
    currentLocation,     \* NoLocation or a position
    locationPermission,  \* "null" | "true" | "false"
    isTracking,          \* BOOLEAN
    watchId,             \* NoWatch or the id of the watch the provider knows
    locMounted,          \* the provider is mounted
    \* ---- promises of the provider that have not settled
    checkPending,        \* Geolocation.checkPermissions() of the mount effect
    requestPending,      \* Geolocation.requestPermissions() awaited
    fixPending,          \* getCurrentPosition() promises not settled (a count)
    \* ---- the platform's Geolocation plugin
    watches,             \* ids of the hardware watches registered
    watchPending,        \* ids whose watchPosition promise has not resolved
    nextWatch,           \* next id the platform hands out
    inflight,            \* NoSample, or the <<id, sample>> handed to the bridge
                         \* whose callback has not run yet
    \* ---- observation of the last handler that ran, and of stop calls
    locOp,               \* [name, ret, stale, notified, outcome]
    stopRequested        \* watches that were registered when stop was called
                         \* and can still call back

\* the provider's React state and its promises
locState == <<currentLocation, locationPermission, isTracking, watchId, locMounted>>
locPromises == <<checkPending, requestPending, fixPending>>
\* the platform's watches
locPlatform == <<watches, watchPending, nextWatch, inflight>>

locVars == <<locState, locPromises, locPlatform, locOp, stopRequested>>

\* ------------------------------------------------------------ LocationProvider
NoLocation == 0
NoWatch == 0
\* a watch callback invoked with err set (and no position)
ErrSample == 0

Positions == 1..MaxPos
WatchIds == 1..MaxWatches
PermissionOutcomes == {"granted", "denied", "prompt", "error"}

NoSample == <<>>

\* The record every handler leaves: its name, what it returned, and for a watch
\* callback whether stop had been called for its watch (stale) and whether it
\* reached the call of the consumer's callback, onLocationUpdate when one was
\* given (notified); for a permission call the platform's outcome.
Op(name, ret) ==
    [name |-> name, ret |-> ret, stale |-> FALSE, notified |-> FALSE,
     outcome |-> "none"]

\* The watches that can still invoke their callback: registered, or with a
\* sample on its way.
Live(ws, fl) == ws \cup (IF fl = NoSample THEN {} ELSE {fl[1]})

\* A state setter of a component that is no longer mounted changes nothing.
SetLoc(new, old) == IF locMounted THEN new ELSE old

\* useState(null) of watchId: the value the mount effect's cleanup closes over,
\* since the effect has no dependencies and runs in the first render only.
InitialWatchId == NoWatch

\* getCurrentLocation(callback): one more getCurrentPosition promise in flight
\* (the model drops it when MaxFix are in flight already).
GetCurrentLocation(fixes) == IF fixes < MaxFix THEN fixes + 1 ELSE fixes

\* permission.location === 'granted'
Granted(outcome) == IF outcome = "granted" THEN "true" ELSE "false"

LocInit ==
    /\ currentLocation = NoLocation
    /\ locationPermission = "null"
    /\ isTracking = FALSE
    /\ watchId = InitialWatchId
    /\ locMounted = TRUE
    /\ checkPending = TRUE
    /\ requestPending = FALSE
    /\ fixPending = 0
    /\ watches = {}
    /\ watchPending = {}
    /\ nextWatch = 1
    /\ inflight = NoSample
    /\ locOp = Op("mount", "void")
    /\ stopRequested = {}

\* checkLocationPermission, after its await: the try body, or the catch.
CheckLocationPermissionSettle ==
    /\ checkPending
    /\ checkPending' = FALSE
    /\ \E outcome \in PermissionOutcomes :
        IF outcome = "error"
        THEN /\ locationPermission' = SetLoc("false", locationPermission)
             /\ UNCHANGED fixPending
        ELSE /\ locationPermission' = SetLoc(Granted(outcome), locationPermission)
             /\ fixPending' = IF outcome = "granted"
                              THEN GetCurrentLocation(fixPending)
                              ELSE fixPending
    /\ locOp' = Op("checkLocationPermission", "void")
    /\ UNCHANGED <<currentLocation, isTracking, watchId, locMounted, requestPending,
                   locPlatform, stopRequested>>

\* requestLocationPermission up to its await.
RequestLocationPermissionCall ==
    /\ locMounted
    /\ ~requestPending
    /\ requestPending' = TRUE
    /\ locOp' = Op("requestLocationPermission", "pending")
    /\ UNCHANGED <<locState, checkPending, fixPending, locPlatform, stopRequested>>

\* requestLocationPermission with a catch that lets the platform error through.
RequestResult_Rethrow(outcome) ==
    IF outcome = "error" THEN "throws" ELSE Granted(outcome)

\* What the promise of requestLocationPermission settles with, for an outcome of
\* Geolocation.requestPermissions(): resolved with "true" or "false" (a promise
\* that rejects is "throws").  The catch returns false.
RequestResult(outcome) ==
    IF outcome = "error" THEN "false" ELSE Granted(outcome)

\* requestLocationPermission after its await: the try body, or the catch.
RequestLocationPermissionSettle ==
    /\ requestPending
    /\ requestPending' = FALSE
    /\ \E outcome \in PermissionOutcomes :
        /\ IF outcome = "error"
           THEN UNCHANGED <<locationPermission, fixPending>>
           ELSE /\ locationPermission' = SetLoc(Granted(outcome), locationPermission)
                /\ fixPending' = IF outcome = "granted"
                                 THEN GetCurrentLocation(fixPending)
                                 ELSE fixPending
        /\ locOp' = [Op("requestLocationPermissionSettled", RequestResult(outcome))
                       EXCEPT !.outcome = outcome]
    /\ UNCHANGED <<currentLocation, isTracking, watchId, locMounted, checkPending,
                   locPlatform, stopRequested>>

\* getCurrentLocation(callback) called by a consumer.
GetCurrentLocationCall ==
    /\ locMounted
    /\ fixPending < MaxFix
    /\ fixPending' = GetCurrentLocation(fixPending)
    /\ locOp' = Op("getCurrentLocation", "void")
    /\ UNCHANGED <<locState, checkPending, requestPending, locPlatform, stopRequested>>

\* getCurrentPosition resolved: the .then of getCurrentLocation.
GetCurrentPositionResolve ==
    /\ fixPending > 0
    /\ fixPending' = fixPending - 1
    /\ \E p \in Positions : currentLocation' = SetLoc(p, currentLocation)
    /\ locOp' = [Op("getCurrentPositionResolved", "void") EXCEPT !.notified = TRUE]
    /\ UNCHANGED <<locationPermission, isTracking, watchId, locMounted, checkPending,
                   requestPending, locPlatform, stopRequested>>

\* getCurrentPosition rejected (timeout, no fix): the .catch of getCurrentLocation.
GetCurrentPositionReject ==
    /\ fixPending > 0
    /\ fixPending' = fixPending - 1
    /\ locOp' = [Op("getCurrentPositionRejected", "void") EXCEPT !.notified = TRUE]
    /\ UNCHANGED <<locState, checkPending, requestPending, locPlatform, stopRequested>>

\* startLocationTracking that refuses only a denied permission
\* (locationPermission === false), so that an undecided one passes.
StartLocationTracking_DeniedOnly ==
    /\ locMounted
    /\ IF locationPermission = "false"
       THEN /\ locOp' = Op("startLocationTracking", "false")
            /\ UNCHANGED <<watches, watchPending, nextWatch>>
       ELSE IF isTracking
       THEN /\ locOp' = Op("startLocationTracking", "true")
            /\ UNCHANGED <<watches, watchPending, nextWatch>>
       ELSE /\ nextWatch <= MaxWatches
            /\ watches' = watches \cup {nextWatch}
            /\ watchPending' = watchPending \cup {nextWatch}
            /\ nextWatch' = nextWatch + 1
            /\ locOp' = Op("startLocationTracking", "true")
    /\ UNCHANGED <<locState, locPromises, inflight, stopRequested>>

\* startLocationTracking(onLocationUpdate): the synchronous part, up to return.
\* Geolocation.watchPosition registers the hardware watch; its promise (the id)
\* resolves later.
StartLocationTracking ==
    /\ locMounted
    /\ IF locationPermission # "true"
       THEN /\ locOp' = Op("startLocationTracking", "false")
            /\ UNCHANGED <<watches, watchPending, nextWatch>>
       ELSE IF isTracking
       THEN /\ locOp' = Op("startLocationTracking", "true")
            /\ UNCHANGED <<watches, watchPending, nextWatch>>
       ELSE /\ nextWatch <= MaxWatches
            /\ watches' = watches \cup {nextWatch}
            /\ watchPending' = watchPending \cup {nextWatch}
            /\ nextWatch' = nextWatch + 1
            /\ locOp' = Op("startLocationTracking", "true")
    /\ UNCHANGED <<locState, locPromises, inflight, stopRequested>>

\* The .then of Geolocation.watchPosition: the watch id is delivered.
WatchPositionResolve ==
    /\ \E id \in watchPending :
        /\ watchPending' = watchPending \ {id}
        /\ watchId' = SetLoc(id, watchId)
    /\ isTracking' = SetLoc(TRUE, isTracking)
    /\ locOp' = Op("watchPositionResolved", "void")
    /\ UNCHANGED <<currentLocation, locationPermission, locMounted, locPromises,
                   watches, nextWatch, inflight, stopRequested>>

\* The platform samples a registered watch whose id has been delivered and
\* hands the result (a position, or an error) to the bridge; the callback runs
\* later, as a task of its own.
PlatformSample ==
    /\ inflight = NoSample
    /\ \E id \in watches \ watchPending, s \in Positions \cup {ErrSample} :
        inflight' = <<id, s>>
    /\ locOp' = Op("platformSample", "void")
    /\ UNCHANGED <<locState, locPromises, watches, watchPending, nextWatch,
                   stopRequested>>

\* The callback given to Geolocation.watchPosition, run for a delivered sample.
WatchCallback ==
    /\ inflight # NoSample
    /\ inflight' = NoSample
    /\ IF inflight[2] = ErrSample
       THEN /\ UNCHANGED currentLocation
            /\ locOp' = [Op("watchCallback", "void") EXCEPT
                           !.stale = inflight[1] \in stopRequested]
       ELSE /\ currentLocation' = SetLoc(inflight[2], currentLocation)
            /\ locOp' = [Op("watchCallback", "void") EXCEPT
                           !.stale = inflight[1] \in stopRequested,
                           !.notified = TRUE]
    /\ stopRequested' = stopRequested \cap watches
    /\ UNCHANGED <<locationPermission, isTracking, watchId, locMounted, locPromises,
                   watches, watchPending, nextWatch>>

\* stopLocationTracking.
StopLocationTracking ==
    /\ locMounted
    /\ IF watchId # NoWatch
       THEN /\ watches' = watches \ {watchId}
            /\ watchId' = NoWatch
            /\ isTracking' = FALSE
            /\ locOp' = Op("stopLocationTracking", "true")
       ELSE /\ locOp' = Op("stopLocationTracking", "false")
            /\ UNCHANGED <<watches, watchId, isTracking>>
    /\ stopRequested' = Live(watches', inflight)
    /\ UNCHANGED <<currentLocation, locationPermission, locMounted, locPromises,
                   watchPending, nextWatch, inflight>>

\* The provider is unmounted: the cleanup of the mount effect runs.
LocUnmount ==
    /\ locMounted
    /\ locMounted' = FALSE
    /\ watches' = IF InitialWatchId # NoWatch
                  THEN watches \ {InitialWatchId}
                  ELSE watches
    /\ locOp' = Op("unmount", "void")
    /\ UNCHANGED <<currentLocation, locationPermission, isTracking, watchId,
                   locPromises, watchPending, nextWatch, inflight, stopRequested>>

\* -------------------------------------------------------------- SocketProvider
VARIABLES
    \* ---- AuthProvider state read by the SocketProvider (useAuth)
    token,               \* NoToken or the bearer token
    user,                \* NoUser or [id, userType]
    \* ---- SocketProvider state (useState, part_000:36-37)
    socket,              \* NoSocket or the id of the provider's socket
    isConnected,         \* BOOLEAN
    sockMounted,         \* the provider is mounted
    effSocket,           \* `socket` in the render whose credential effect ran
                         \* last: what that effect's cleanup closes over
    \* ---- the socket.io sockets created by io()
    sock,                \* per socket id: [phase, attempts, user, sendBuffer]
    nextSocket,          \* next socket id
    \* ---- observation of the last handler that ran
    emitted,             \* the socket.emit calls it made: <<socket id, packet>>
    wire,                \* the packets it put on the transport
    \* ---- what a consumer of the context has seen
    otherViews           \* the provider states <<socket present, isConnected>>
                         \* shown while the channel was Disconnected (no socket)
                         \* or Reconnecting

sockVars == <<token, user, socket, isConnected, sockMounted, effSocket, sock,
              nextSocket, emitted, wire, otherViews>>

NoToken == "null"
NoUser == [id |-> "null", userType |-> "null"]
NoSocket == 0

\* io(..., {reconnectionAttempts: 5})
reconnectionAttempts == 5

Tokens == {"token"}
UserTypes == {"passenger", "driver"}
Users == {[id |-> "u1", userType |-> "passenger"], [id |-> "u2", userType |-> "driver"]}
Trips == {"t1"}
SocketIds == 1..MaxSockets

\* `user-${user.id}`, `${user.userType}s`, `trip-${tripId}`
UserRoom(u) == <<"user-", u.id>>
RoleRoom(u) == <<u.userType, "s">>
TripRoom(tripId) == <<"trip-", tripId>>

Packet(ev, arg) == [ev |-> ev, arg |-> arg]

\* A socket id io() has not handed out yet.
UnusedSocket == [phase |-> "unused", attempts |-> 0, user |-> NoUser, sendBuffer |-> <<>>]
\* io(API_BASE_URL, ...): a socket that opens its transport at once; `user` is
\* the user its handlers close over.
NewSocket(u) == [phase |-> "connecting", attempts |-> 0, user |-> u, sendBuffer |-> <<>>]
\* socket.disconnect(): closed by the client, it neither reconnects nor sends.
ClosedSocket == [phase |-> "closed", attempts |-> 0, user |-> NoUser, sendBuffer |-> <<>>]

\* A state setter of a component that is no longer mounted changes nothing.
SetSock(new, old) == IF sockMounted THEN new ELSE old

\* The channel is Connected: the provider's socket has its transport up.
ChannelConnected == socket # NoSocket /\ sock[socket].phase = "connected"

\* What the provider's context value tells of the connection: whether there is
\* a socket, and isConnected.
ConnectionView == <<socket # NoSocket, isConnected>>

SockInit ==
    /\ token = NoToken
    /\ user = NoUser
    /\ socket = NoSocket
    /\ isConnected = FALSE
    /\ sockMounted = TRUE
    /\ effSocket = NoSocket
    /\ sock = [s \in SocketIds |-> UnusedSocket]
    /\ nextSocket = 1
    /\ emitted = <<>>
    /\ wire = <<>>
    /\ otherViews = {<<FALSE, FALSE>>}

\* The effect on [token, user], run because one of them changed to tok, usr:
\* first the cleanup of the effect's previous run, which is disconnectSocket of
\* the render of that run (its `socket` is effSocket), then the body with the
\* present render's `socket`: initializeSocket, or disconnectSocket.
CredentialEffect(tok, usr) ==
    LET cleaned == IF effSocket # NoSocket
                   THEN [sock EXCEPT ![effSocket] = ClosedSocket]
                   ELSE sock
        create == tok # NoToken /\ usr # NoUser
        disconnects == effSocket # NoSocket \/ (~create /\ socket # NoSocket)
    IN  /\ create => nextSocket <= MaxSockets
        /\ sock' = IF create
                   THEN [cleaned EXCEPT ![nextSocket] = NewSocket(usr)]
                   ELSE IF socket # NoSocket
                   THEN [cleaned EXCEPT ![socket] = ClosedSocket]
                   ELSE cleaned
        /\ nextSocket' = IF create THEN nextSocket + 1 ELSE nextSocket
        /\ socket' = IF create THEN nextSocket ELSE NoSocket
        /\ isConnected' = IF disconnects THEN FALSE ELSE isConnected
        /\ effSocket' = socket
        /\ emitted' = <<>>
        /\ wire' = <<>>
        /\ UNCHANGED sockMounted

\* login / register resolved with {token, user}: setToken, setUser.
Login ==
    /\ sockMounted
    /\ \E tok \in Tokens, usr \in Users :
        /\ token' = tok
        /\ user' = usr
        /\ CredentialEffect(tok, usr)

\* logout: setToken(null), setUser(null).
Logout ==
    /\ sockMounted
    /\ token # NoToken \/ user # NoUser
    /\ token' = NoToken
    /\ user' = NoUser
    /\ CredentialEffect(NoToken, NoUser)

\* updateProfile resolved: setUser(data.user), a new object; the token stays.
UpdateProfile ==
    /\ sockMounted
    /\ user # NoUser
    /\ \E usr \in Users :
        /\ usr.id = user.id
        /\ user' = usr
        /\ UNCHANGED token
        /\ CredentialEffect(token, usr)

\* The provider is unmounted: the cleanup of the effect's last run.
SockUnmount ==
    /\ sockMounted
    /\ sockMounted' = FALSE
    /\ sock' = IF effSocket # NoSocket
               THEN [sock EXCEPT ![effSocket] = ClosedSocket]
               ELSE sock
    /\ emitted' = <<>>
    /\ wire' = <<>>
    /\ UNCHANGED <<token, user, socket, isConnected, effSocket, nextSocket>>

\* A 'connect' handler that joins the user room only.
ConnectEmits_UserRoomOnly(u) ==
    IF u # NoUser
    THEN <<Packet("join-room", UserRoom(u))>>
    ELSE <<>>

\* The join-room packets of the 'connect' handler of a socket created for u.
ConnectEmits(u) ==
    IF u # NoUser
    THEN <<Packet("join-room", UserRoom(u)), Packet("join-room", RoleRoom(u))>>
    ELSE <<>>

Tag(s, packets) == [i \in 1..Len(packets) |-> <<s, packets[i]>>]

\* The transport of socket s is up (first handshake, or a reconnect attempt that
\* succeeded): socket.io sends what the socket buffered and fires 'connect'
\* (and 'reconnect' after a reconnect); both handlers setIsConnected(true).
TransportUp(s) ==
    /\ sock[s].phase \in {"connecting", "reconnecting"}
    /\ sock' = [sock EXCEPT ![s].phase = "connected", ![s].attempts = 0,
                            ![s].sendBuffer = <<>>]
    /\ isConnected' = SetSock(TRUE, isConnected)
    /\ emitted' = Tag(s, ConnectEmits(sock[s].user))
    /\ wire' = Tag(s, sock[s].sendBuffer \o ConnectEmits(sock[s].user))
    /\ UNCHANGED <<token, user, socket, sockMounted, effSocket, nextSocket>>

\* The transport of a connected socket drops: 'disconnect', and socket.io
\* starts to reconnect.
TransportDrop(s) ==
    /\ sock[s].phase = "connected"
    /\ sock' = [sock EXCEPT ![s].phase = "reconnecting", ![s].attempts = 0]
    /\ isConnected' = SetSock(FALSE, isConnected)
    /\ emitted' = <<>>
    /\ wire' = <<>>
    /\ UNCHANGED <<token, user, socket, sockMounted, effSocket, nextSocket>>

\* The first handshake fails: 'connect_error', and socket.io starts to reconnect.
ConnectError(s) ==
    /\ sock[s].phase = "connecting"
    /\ sock' = [sock EXCEPT ![s].phase = "reconnecting", ![s].attempts = 0]
    /\ isConnected' = SetSock(FALSE, isConnected)
    /\ emitted' = <<>>
    /\ wire' = <<>>
    /\ UNCHANGED <<token, user, socket, sockMounted, effSocket, nextSocket>>

\* socket.io that allows one attempt too many.
AttemptsExhausted_OneMore(n) == n > reconnectionAttempts

\* socket.io gives up once reconnectionAttempts attempts have failed.
AttemptsExhausted(n) == n >= reconnectionAttempts

\* A reconnect attempt fails: 'connect_error'; after the last attempt allowed
\* also 'reconnect_failed', and socket.io makes no further attempt.
ReconnectAttemptFails(s) ==
    /\ sock[s].phase = "reconnecting"
    /\ sock' = [sock EXCEPT
                  ![s].attempts = @ + 1,
                  ![s].phase = IF AttemptsExhausted(sock[s].attempts + 1)
                               THEN "failed" ELSE "reconnecting"]
    /\ isConnected' = SetSock(FALSE, isConnected)
    /\ emitted' = <<>>
    /\ wire' = <<>>
    /\ UNCHANGED <<token, user, socket, sockMounted, effSocket, nextSocket>>

\* socket.emit(packet) on the provider's socket, by one of the provider's
\* functions whose guard `socket && isConnected` (and `user` where the payload
\* needs it) is `guard`: socket.io sends the packet if the socket is connected
\* and keeps it in the socket's send buffer otherwise.
ProviderEmit(guard, packet) ==
    /\ sockMounted
    /\ IF guard
       THEN IF sock[socket].phase = "connected"
            THEN /\ wire' = <<<<socket, packet>>>>
                 /\ UNCHANGED sock
            ELSE /\ Len(sock[socket].sendBuffer) < MaxBuffer
                 /\ sock' = [sock EXCEPT ![socket].sendBuffer = Append(@, packet)]
                 /\ wire' = <<>>
       ELSE /\ wire' = <<>>
            /\ UNCHANGED sock
    /\ emitted' = IF guard THEN <<<<socket, packet>>>> ELSE <<>>
    /\ UNCHANGED <<token, user, socket, isConnected, sockMounted, effSocket,
                   nextSocket>>

JoinTripRoom ==
    \E tripId \in Trips :
        ProviderEmit(socket # NoSocket /\ isConnected,
                     Packet("join-room", TripRoom(tripId)))

LeaveTripRoom ==
    \E tripId \in Trips :
        ProviderEmit(socket # NoSocket /\ isConnected,
                     Packet("leave-room", TripRoom(tripId)))

UpdateDriverLocation ==
    \E tripId \in Trips :
        ProviderEmit(socket # NoSocket /\ isConnected,
                     Packet("location-update", <<tripId>>))

UpdateTripStatus ==
    \E tripId \in Trips :
        ProviderEmit(socket # NoSocket /\ isConnected,
                     Packet("trip-status-update", <<tripId>>))

AcceptTripRequest ==
    \E tripId \in Trips :
        ProviderEmit(socket # NoSocket /\ isConnected /\ user # NoUser,
                     Packet("accept-trip", <<tripId, user.id>>))

RejectTripRequest ==
    \E tripId \in Trips :
        ProviderEmit(socket # NoSocket /\ isConnected /\ user # NoUser,
                     Packet("reject-trip", <<tripId, user.id>>))

SendMessage ==
    \E tripId \in Trips :
        ProviderEmit(socket # NoSocket /\ isConnected /\ user # NoUser,
                     Packet("send-message", <<tripId, user.id>>))

\* ------------------------------------------------------------ room membership
VARIABLES
    rooms,               \* per socket id: the rooms its connection has joined
                         \* (join-room packets the server got from it, less the
                         \* leave-room ones); membership ends with the connection
    beforeDrop           \* per socket id: its rooms when its transport last
                         \* went down

roomVars == <<rooms, beforeDrop>>

RoomInit ==
    /\ rooms = [s \in SocketIds |-> {}]
    /\ beforeDrop = [s \in SocketIds |-> {}]

\* The packets socket s put on the transport, in order.
PacketsOf(s, w) ==
    LET own == SelectSeq(w, LAMBDA x : x[1] = s)
    IN  [i \in 1..Len(own) |-> own[i][2]]

\* The rooms of a connection that had joined rs, after the server has handled
\* these packets: join-room adds the room, leave-room removes it.
RECURSIVE ServerRooms(_, _)
ServerRooms(rs, packets) ==
    IF packets = <<>>
    THEN rs
    ELSE LET p == Head(packets)
         IN  ServerRooms(IF p.ev = "join-room" THEN rs \cup {p.arg}
                         ELSE IF p.ev = "leave-room" THEN rs \ {p.arg}
                         ELSE rs,
                         Tail(packets))

\* Room membership after a step: a socket whose transport is not up is in no
\* room; a new connection starts with none and joins what it sends.
TrackRooms ==
    /\ rooms' = [s \in SocketIds |->
                   IF sock'[s].phase = "connected"
                   THEN ServerRooms(IF sock[s].phase = "connected"
                                    THEN rooms[s] ELSE {},
                                    PacketsOf(s, wire'))
                   ELSE {}]
    /\ beforeDrop' = [s \in SocketIds |->
                        IF sock[s].phase = "connected" /\ sock'[s].phase # "connected"
                        THEN rooms[s]
                        ELSE beforeDrop[s]]

\* --------------------------------------------------- inbound events, handlers
VARIABLES
    listeners,           \* per socket id and event kind: the callbacks socket.on
                         \* registered on that socket, in registration order
    subscribed,          \* the subscriptions callers made and did not yet undo,
                         \* in subscription order: [handler, kind, on], `on` the
                         \* socket the subscribe function bound the handler to,
                         \* NoSocket when it returned undefined
    inbound,             \* NoEvent or <<socket id, kind>>: an event the server
                         \* sent that has not arrived yet
    delivered            \* NoDelivery or [socket, kind, handlers]: the event
                         \* that just arrived and the callbacks it invoked

evVars == <<listeners, subscribed, inbound, delivered>>

\* Two of the seven event kinds; the seven subscribe functions differ in the
\* event name only.
Kinds == {"driver-location", "trip-status"}
Handlers == {"h1", "h2"}
NoEvent == <<>>
NoDelivery == [socket |-> NoSocket, kind |-> "none", handlers |-> <<>>]

EvInit ==
    /\ listeners = [s \in SocketIds |-> [k \in Kinds |-> <<>>]]
    /\ subscribed = <<>>
    /\ inbound = NoEvent
    /\ delivered = NoDelivery

\* seq without its i-th element
RemoveAt(seq, i) == [j \in 1..(Len(seq) - 1) |-> IF j < i THEN seq[j] ELSE seq[j + 1]]

\* socket.off(kind, callback): the callback is no longer registered.
Off(seq, h) == SelectSeq(seq, LAMBDA x : x # h)

\* A step of a caller or of the server that runs no handler of the provider.
SockIdle ==
    /\ emitted' = <<>>
    /\ wire' = <<>>
    /\ UNCHANGED <<token, user, socket, isConnected, sockMounted, effSocket,
                   sock, nextSocket>>

\* onTripStatusUpdate(callback), onDriverLocationUpdate(callback), ...:
\* `if (socket) { socket.on(kind, callback); return () => socket.off(...) }`,
\* with the `socket` of the provider's present render.
Subscribe(kind, h) ==
    /\ sockMounted
    /\ \A i \in DOMAIN subscribed : subscribed[i].handler # h
    /\ listeners' = IF socket # NoSocket
                    THEN [listeners EXCEPT ![socket][kind] = Append(@, h)]
                    ELSE listeners
    /\ subscribed' = Append(subscribed, [handler |-> h, kind |-> kind, on |-> socket])
    /\ delivered' = NoDelivery
    /\ UNCHANGED inbound
    /\ SockIdle

\* The caller undoes its i-th subscription: it calls what the subscribe
\* function returned, `() => socket.off(kind, callback)` on the socket the
\* handler was bound to, if it returned anything.
Unsubscribe(i) ==
    /\ i \in DOMAIN subscribed
    /\ LET e == subscribed[i]
       IN  listeners' = IF e.on # NoSocket
                        THEN [listeners EXCEPT ![e.on][e.kind] = Off(@, e.handler)]
                        ELSE listeners
    /\ subscribed' = RemoveAt(subscribed, i)
    /\ delivered' = NoDelivery
    /\ UNCHANGED inbound
    /\ SockIdle

\* The trip rooms among rs.
TripRoomsIn(rs) == {TripRoom(tripId) : tripId \in Trips} \cap rs

\* The server sends an event of this kind to a connection that is in a room the
\* event goes to: a driver-location event to the members of a trip room.
ServerSend(s, kind) ==
    /\ inbound = NoEvent
    /\ sock[s].phase = "connected"
    /\ IF kind = "driver-location"
       THEN TripRoomsIn(rooms[s]) # {}
       ELSE rooms[s] # {}
    /\ inbound' = <<s, kind>>
    /\ delivered' = NoDelivery
    /\ UNCHANGED <<listeners, subscribed>>
    /\ SockIdle

\* The event arrives: socket.io invokes the callbacks registered on that socket
\* for the kind, in registration order.
Receive ==
    /\ inbound # NoEvent
    /\ delivered' = [socket |-> inbound[1], kind |-> inbound[2],
                     handlers |-> listeners[inbound[1]][inbound[2]]]
    /\ inbound' = NoEvent
    /\ UNCHANGED <<listeners, subscribed>>
    /\ SockIdle

\* A step of the provider or of a transport: an event on its way to a
\* connection that is no longer up is lost.
TrackInbound ==
    /\ inbound' = IF inbound # NoEvent /\ sock'[inbound[1]].phase # "connected"
                  THEN NoEvent
                  ELSE inbound
    /\ delivered' = NoDelivery
    /\ UNCHANGED <<listeners, subscribed>>

\* ---------------------------------------------------- distance, ETA and fare
\* calculateETA is evaluated in the arithmetic of the JavaScript number type,
\* IEEE 754 binary64, round to nearest even. A positive number is [hi, mid, lo, e]:
\* its 53 significand bits are the 19 bits of hi (the first one 1), the 17 bits
\* of mid and the 17 bits of lo, and its value is
\* (hi * 2^34 + mid * 2^17 + lo) * 2^(e - 52).
VARIABLES
    mathOp               \* the last call of calculateETA or of the fare
                         \* computation: its arguments and what it returned

mathVars == <<mathOp>>

\* threw: the call ended with an exception
NoCall == [name |-> "none", distance |-> 0, averageSpeed |-> 0,
           vehicle |-> "none", minutes |-> 0, ret |-> 0, threw |-> FALSE]

MathInit == mathOp = NoCall

PowersOf2 == <<1, 2, 4, 8, 16, 32, 64, 128, 256, 512, 1024, 2048, 4096, 8192,
               16384, 32768, 65536, 131072, 262144, 524288>>
Pow2(k) == PowersOf2[k + 1]

\* n/m as (n1/m1) * 2^e with 1 <= n1/m1 < 2
RECURSIVE Normalize(_, _, _)
Normalize(n, m, e) ==
    IF n < m THEN Normalize(2 * n, m, e - 1)
    ELSE IF n >= 2 * m THEN Normalize(n, 2 * m, e + 1)
    ELSE <<n, m, e>>

\* The number with these significand bits and exponent, one unit in the last
\* place higher if `up`.
Rounded(hi, mid, lo, e, up) ==
    LET lo1 == IF up THEN lo + 1 ELSE lo
        mid1 == IF lo1 = Pow2(17) THEN mid + 1 ELSE mid
        hi1 == IF mid1 = Pow2(17) THEN hi + 1 ELSE hi
    IN  IF hi1 = Pow2(19)
        THEN [hi |-> Pow2(18), mid |-> 0, lo |-> 0, e |-> e + 1]
        ELSE [hi |-> hi1, mid |-> mid1 % Pow2(17), lo |-> lo1 % Pow2(17), e |-> e]

\* n / m for integers n > 0, m > 0: the binary64 number nearest to the quotient
\* (ties to even), by long division, 18, 17 and 17 quotient bits at a time.
FloatDiv(n, m) ==
    LET nm == Normalize(n, m, 0)
        n1 == nm[1]
        m1 == nm[2]
        t1 == (n1 - m1) * Pow2(18)
        t2 == (t1 % m1) * Pow2(17)
        t3 == (t2 % m1) * Pow2(17)
        lo == t3 \div m1
        rem == t3 % m1
        up == 2 * rem > m1 \/ (2 * rem = m1 /\ lo % 2 = 1)
    IN  Rounded(Pow2(18) + (t1 \div m1), t2 \div m1, lo, nm[3], up)

\* x * c for a binary64 x > 0 and an integer 32 <= c < 64: the binary64 number
\* nearest to the product (ties to even); the product has 5 or 6 bits more
\* than x, which are rounded away.
FloatMul(x, c) ==
    LET plo == x.lo * c
        pmid == x.mid * c + (plo \div Pow2(17))
        phi == x.hi * c + (pmid \div Pow2(17))
        lo == plo % Pow2(17)
        mid == pmid % Pow2(17)
        k == IF phi < Pow2(19) * 32 THEN 5 ELSE 6
        dropped == lo % Pow2(k)
        lo1 == (lo \div Pow2(k)) + (mid % Pow2(k)) * Pow2(17 - k)
        mid1 == (mid \div Pow2(k)) + (phi % Pow2(k)) * Pow2(17 - k)
        half == Pow2(k - 1)
        up == dropped > half \/ (dropped = half /\ lo1 % 2 = 1)
    IN  Rounded(phi \div Pow2(k), mid1, lo1, x.e + k, up)

\* the integer part of a binary64 0 < x < 2^19
FloatFloor(x) == IF x.e < 0 THEN 0 ELSE x.hi \div Pow2(18 - x.e)

\* a binary64 0 < x < 2^19 is not an integer
HasFraction(x) ==
    \/ x.e < 0
    \/ x.hi % Pow2(18 - x.e) # 0
    \/ x.mid # 0
    \/ x.lo # 0

\* Math.ceil of x, or of -x if neg, for a binary64 0 < x < 2^19.
MathCeil(neg, x) ==
    IF neg THEN 0 - FloatFloor(x)
    ELSE FloatFloor(x) + (IF HasFraction(x) THEN 1 ELSE 0)

\* Distances are whole numbers of quarter kilometres, which binary64 holds
\* exactly.
KmUnit == 4

\* calculateETA(distance, averageSpeed) for a distance of `distance` quarter
\* kilometres and a speed of whole km/h > 0:
\* Math.ceil((distance / averageSpeed) * 60).
calculateETA(distance, averageSpeed) ==
    IF distance = 0 THEN 0
    ELSE LET neg == distance < 0
             abs == IF neg THEN 0 - distance ELSE distance
         IN  MathCeil(neg, FloatMul(FloatDiv(abs, KmUnit * averageSpeed), 60))

\* calculateETA(distance): averageSpeed defaults to 30.
DefaultSpeed == 30

\* The rate table; perMinuteRate4 is 4 * perMinuteRate (2.5, 3.0, 4.0).
vehicles ==
    { [type |-> "economy", baseFare |-> 25, perKmRate |-> 12, perMinuteRate4 |-> 10],
      [type |-> "comfort", baseFare |-> 35, perKmRate |-> 15, perMinuteRate4 |-> 12],
      [type |-> "premium", baseFare |-> 50, perKmRate |-> 20, perMinuteRate4 |-> 16] }

\* vehicles.find(v => v.type === selectedVehicle)
Vehicle(type) == CHOOSE v \in vehicles : v.type = type

\* Math.round of n quarters that drops the fraction.
MathRound_Floor(n) == n \div KmUnit

\* Math.round(n / 4): the nearest integer, a half rounded up. The sums below are
\* small multiples of 1/4, which binary64 adds and multiplies exactly.
MathRound(n) == (n + 2) \div KmUnit

\* A fare that takes the time charge off.
fare_MinusMinutes(vehicle, distanceKm, estimatedMinutes) ==
    MathRound(KmUnit * vehicle.baseFare
              + distanceKm * vehicle.perKmRate
              - estimatedMinutes * vehicle.perMinuteRate4)

\* const fare = Math.round(vehicle.baseFare + distanceKm * vehicle.perKmRate
\*                         + estimatedMinutes * vehicle.perMinuteRate),
\* distanceKm in quarter kilometres.
fare(vehicle, distanceKm, estimatedMinutes) ==
    MathRound(KmUnit * vehicle.baseFare
              + distanceKm * vehicle.perKmRate
              + estimatedMinutes * vehicle.perMinuteRate4)

\* inputs of the calls: distances in quarter kilometres, speeds, minutes
Distances == (0 - MaxDistance)..MaxDistance
Speeds == 1..MaxSpeed
Minutes == 0..MaxMinutes

\* A caller calls calculateETA.
CalculateETA ==
    /\ mathOp = NoCall
    /\ \E d \in Distances, sp \in Speeds :
        mathOp' = [name |-> "calculateETA", distance |-> d, averageSpeed |-> sp,
                   vehicle |-> "none", minutes |-> 0,
                   ret |-> calculateETA(d, sp), threw |-> FALSE]

\* The fare computation of calculateTripDetails for a vehicle class, a distance
\* and an ETA.
Fare ==
    /\ mathOp = NoCall
    /\ \E v \in vehicles, d \in 0..MaxDistance, eta \in Minutes :
        mathOp' = [name |-> "fare", distance |-> d, averageSpeed |-> 0,
                   vehicle |-> v.type, minutes |-> eta,
                   ret |-> fare(v, d, eta), threw |-> FALSE]

\* The caller has taken the result.
MathReturn ==
    /\ mathOp # NoCall
    /\ mathOp' = NoCall

\* ------------------------------------------------------------ booking screen
VARIABLES
    \* ---- TripBooking state (useState, TripBooking.tsx:63-68)
    bookMounted,         \* the screen is mounted
    dropoffAddress,      \* the destination typed in
    selectedVehicle,     \* the vehicle class selected
    estimatedFare,
    estimatedTime,       \* minutes
    distance             \* tenths of a kilometre

quote == <<distance, estimatedTime, estimatedFare>>
bookVars == <<bookMounted, dropoffAddress, selectedVehicle, estimatedFare,
              estimatedTime, distance>>

Addresses == {"", "somewhere"}
VehicleTypes == {v.type : v \in vehicles}

\* useState('') / useState('economy') / useState(0)
BookInit ==
    /\ bookMounted = FALSE
    /\ dropoffAddress = ""
    /\ selectedVehicle = "economy"
    /\ estimatedFare = 0
    /\ estimatedTime = 0
    /\ distance = 0

\* calculateDistance(pickup, mockDropoffLocation) in quarter kilometres: the
\* mock dropoff is 0.05 degrees north and east of the pickup, between 6.2 and
\* 7.9 km away depending on the latitude; the model's positions are that many
\* quarter kilometres from theirs.
calculateDistance(pickup) == 24 + pickup

\* Math.round(distanceKm * 10) / 10, in tenths of a kilometre, of a distance in
\* quarter kilometres.
DisplayDistance(distanceKm) == (5 * distanceKm + 1) \div 2

\* What calculateTripDetails sets for this pickup position and vehicle class:
\* <<distance, estimatedTime, estimatedFare>>.
calculateTripDetails(pickup, vehicleType) ==
    LET distanceKm == calculateDistance(pickup)
        estimatedMinutes == calculateETA(distanceKm, DefaultSpeed)
    IN  <<DisplayDistance(distanceKm),
          estimatedMinutes,
          fare(Vehicle(vehicleType), distanceKm, estimatedMinutes)>>

\* An effect that lists currentLocation only.
QuoteEffect_LocationOnly(mounts) ==
    LET q == IF /\ bookMounted'
                /\ mounts \/ currentLocation' # currentLocation
                /\ currentLocation' # NoLocation
             THEN calculateTripDetails(currentLocation', selectedVehicle')
             ELSE IF mounts THEN <<0, 0, 0>>
             ELSE quote
    IN  /\ distance' = q[1]
        /\ estimatedTime' = q[2]
        /\ estimatedFare' = q[3]

\* The effect on [currentLocation, selectedVehicle] after the render that
\* follows a step (`mounts`: the step mounts the screen): run on mount and when
\* one of the two changed, it calls calculateTripDetails if there is a location.
QuoteEffect(mounts) ==
    LET q == IF /\ bookMounted'
                /\ \/ mounts
                   \/ currentLocation' # currentLocation
                   \/ selectedVehicle' # selectedVehicle
                /\ currentLocation' # NoLocation
             THEN calculateTripDetails(currentLocation', selectedVehicle')
             ELSE IF mounts THEN <<0, 0, 0>>
             ELSE quote
    IN  /\ distance' = q[1]
        /\ estimatedTime' = q[2]
        /\ estimatedFare' = q[3]

\* The screen is opened: its state is the initial one, and the effect runs.
OpenBooking ==
    /\ ~bookMounted
    /\ bookMounted' = TRUE
    /\ dropoffAddress' = ""
    /\ selectedVehicle' = "economy"
    /\ UNCHANGED locVars
    /\ QuoteEffect(TRUE)

\* The screen is left.
CloseBooking ==
    /\ bookMounted
    /\ bookMounted' = FALSE
    /\ UNCHANGED <<dropoffAddress, selectedVehicle, locVars>>
    /\ QuoteEffect(FALSE)

\* onClick={() => setSelectedVehicle(vehicle.type)}
SelectVehicle ==
    /\ bookMounted
    /\ \E type \in VehicleTypes : selectedVehicle' = type
    /\ UNCHANGED <<bookMounted, dropoffAddress, locVars>>
    /\ QuoteEffect(FALSE)

\* onChange={(e) => setDropoffAddress(e.target.value)}
SetDropoffAddress ==
    /\ bookMounted
    /\ \E a \in Addresses : dropoffAddress' = a
    /\ UNCHANGED <<bookMounted, selectedVehicle, locVars>>
    /\ QuoteEffect(FALSE)

\* A step of the LocationProvider seen from the screen: the render that follows
\* it, and the effect.
BookRender ==
    /\ UNCHANGED <<bookMounted, dropoffAddress, selectedVehicle>>
    /\ QuoteEffect(FALSE)

\* ---------------------------------------------------------------- AuthProvider
VARIABLES
    storage,             \* localStorage: per key the item stored, as a set
                         \* (NoItem when the key is absent)
    authLoading,         \* isLoading of AuthProvider
    requests,            \* the fetches of login / register / updateProfile
                         \* still awaited: [kind, stale, authorized]
    authOp,              \* the last step of AuthProvider and what it returned
    sinceLogout          \* a logout has completed and no login or register
                         \* started after it has succeeded since

authVars == <<storage, authLoading, requests, authOp, sinceLogout>>

\* getItem(key) === null, and the item setItem(key, value) leaves
NoItem == {}
Item(value) == {value}
GetItem(item) == CHOOSE value \in item : TRUE
NoStorage == [authToken |-> NoItem, user |-> NoItem]

\* JSON.stringify(data.user) and JSON.parse(storedUser)
Stringify(u) == <<"{id:", u.id, ",userType:", u.userType, "}">>
JSONParse(str) == [id |-> str[2], userType |-> str[4]]

RequestKinds == {"login", "register", "updateProfile"}
\* How a fetch ends: an OK response with {token, user}, a non-OK response with
\* {error}, a non-OK response without error, fetch rejecting, and a body that
\* response.json() cannot parse.
Outcomes == {"ok", "not-ok", "not-ok-bare", "network", "unparsable"}

NoRet == [success |-> "none", error |-> ""]
NoAuthOp == [name |-> "none", outcome |-> "none", stale |-> FALSE, ret |-> NoRet]

\* 'Login failed', 'Registration failed', 'Profile update failed'
DefaultError(kind) ==
    CASE kind = "login" -> "Login failed"
      [] kind = "register" -> "Registration failed"
      [] kind = "updateProfile" -> "Profile update failed"

\* The value returned for a non-OK response (data.error || default) and from
\* the catch block.
Failure(kind, outcome) ==
    [success |-> "false",
     error |-> IF outcome = "not-ok" THEN "data.error" ELSE DefaultError(kind)]

AuthInit ==
    /\ storage = NoStorage
    /\ authLoading = TRUE
    /\ requests = {}
    /\ authOp = NoAuthOp
    /\ sinceLogout = FALSE

\* The rest of the SocketProvider's variables when its effect does not run.
NoCredentialEffect ==
    /\ emitted' = <<>>
    /\ wire' = <<>>
    /\ UNCHANGED <<socket, isConnected, sockMounted, effSocket, sock, nextSocket>>

\* checkAuthStatus, run by the mount effect: the stored credentials, if both
\* are there, become token and user.
CheckAuthStatus ==
    /\ authLoading
    /\ authLoading' = FALSE
    /\ IF storage.authToken # NoItem /\ storage.user # NoItem
       THEN /\ token' = GetItem(storage.authToken)
            /\ user' = JSONParse(GetItem(storage.user))
            /\ CredentialEffect(GetItem(storage.authToken),
                                JSONParse(GetItem(storage.user)))
       ELSE /\ UNCHANGED <<token, user>>
            /\ NoCredentialEffect
    /\ authOp' = [NoAuthOp EXCEPT !.name = "checkAuthStatus"]
    /\ UNCHANGED <<storage, requests, sinceLogout>>

\* The page is loaded again: every provider starts from its initial state, the
\* old page's sockets and awaited requests are gone, localStorage is kept.
AuthReload ==
    /\ ~authLoading
    /\ authLoading' = TRUE
    /\ token' = NoToken
    /\ user' = NoUser
    /\ requests' = {}
    /\ socket' = NoSocket
    /\ isConnected' = FALSE
    /\ sockMounted' = TRUE
    /\ effSocket' = NoSocket
    /\ sock' = [s \in SocketIds |->
                IF sock[s].phase = "unused" THEN sock[s] ELSE ClosedSocket]
    /\ emitted' = <<>>
    /\ wire' = <<>>
    /\ authOp' = [NoAuthOp EXCEPT !.name = "reload"]
    /\ UNCHANGED <<storage, sinceLogout, nextSocket>>

\* login(email, password), register(userData), updateProfile(profileData) up
\* to `await fetch(...)`. updateProfile sends `Bearer ${token}`: the backend
\* accepts the request only if that is a token.
AuthCall(kind) ==
    /\ Cardinality(requests) < MaxRequests
    /\ requests' = requests \cup
          {[kind |-> kind, stale |-> FALSE,
            authorized |-> (kind = "updateProfile" => token # NoToken)]}
    /\ authOp' = [NoAuthOp EXCEPT !.name = kind, !.outcome = "call"]
    /\ UNCHANGED <<storage, authLoading, sinceLogout, token, user>>
    /\ NoCredentialEffect

\* A settle that stores the credentials of a failed request.
AuthSettle_StoresOnFailure(r, outcome) ==
    /\ r \in requests
    /\ outcome = "ok" => r.authorized
    /\ requests' = requests \ {r}
    /\ \E tok \in Tokens, usr \in Users :
         /\ storage' = [authToken |-> Item(tok), user |-> Item(Stringify(usr))]
         /\ token' = tok
         /\ user' = usr
         /\ CredentialEffect(tok, usr)
    /\ authOp' = [name |-> r.kind, outcome |-> outcome, stale |-> r.stale,
                  ret |-> IF outcome = "ok" THEN [success |-> "true", error |-> ""]
                          ELSE Failure(r.kind, outcome)]
    /\ UNCHANGED <<authLoading, sinceLogout>>

\* The continuation of login / register / updateProfile after the fetch:
\* `await response.json()`, the `!response.ok` return, the writes to
\* localStorage, setToken / setUser, and the catch block.
AuthSettle(r, outcome) ==
    /\ r \in requests
    /\ outcome = "ok" => r.authorized
    /\ requests' = requests \ {r}
    /\ IF outcome = "ok"
       THEN \E tok \in Tokens, usr \in Users :
              /\ r.kind = "updateProfile" /\ user # NoUser => usr.id = user.id
              /\ IF r.kind = "updateProfile"
                 THEN /\ storage' = [storage EXCEPT !.user = Item(Stringify(usr))]
                      /\ UNCHANGED token
                      /\ user' = usr
                      /\ CredentialEffect(token, usr)
                 ELSE /\ storage' = [authToken |-> Item(tok), user |-> Item(Stringify(usr))]
                      /\ token' = tok
                      /\ user' = usr
                      /\ CredentialEffect(tok, usr)
       ELSE /\ UNCHANGED <<storage, token, user>>
            /\ NoCredentialEffect
    /\ authOp' = [name |-> r.kind, outcome |-> outcome, stale |-> r.stale,
                  ret |-> IF outcome = "ok" THEN [success |-> "true", error |-> ""]
                          ELSE Failure(r.kind, outcome)]
    /\ sinceLogout' = IF outcome = "ok" /\ r.kind # "updateProfile" /\ ~r.stale
                      THEN FALSE ELSE sinceLogout
    /\ UNCHANGED authLoading

\* logout(): removes both items, setToken(null), setUser(null); the requests
\* awaited at that moment were started before it.
AuthLogout ==
    /\ storage' = NoStorage
    /\ token' = NoToken
    /\ user' = NoUser
    /\ IF token # NoToken \/ user # NoUser
       THEN CredentialEffect(NoToken, NoUser)
       ELSE NoCredentialEffect
    /\ requests' = {[r EXCEPT !.stale = TRUE] : r \in requests}
    /\ authOp' = [NoAuthOp EXCEPT !.name = "logout"]
    /\ sinceLogout' = TRUE
    /\ UNCHANGED authLoading

\* ------------------------------------------------------------------ Home screen
VARIABLES
    homeScreen,          \* "unmounted", "requesting" (initializeScreen awaits
                         \* requestLocationPermission) or "mounted"
    homeLoading,         \* isLoading of Home
    nearbyDrivers        \* the drivers shown on the map

homeVars == <<homeScreen, homeLoading, nearbyDrivers>>

HomeInit ==
    /\ homeScreen = "unmounted"
    /\ homeLoading = TRUE
    /\ nearbyDrivers = <<>>

\* fetchNearbyDrivers: two mock drivers placed next to the location.
mockDrivers(location) ==
    <<[id |-> "driver1", near |-> location], [id |-> "driver2", near |-> location]>>

\* The effect on [currentLocation]: with a position it fetches the drivers and
\* ends the loading state.
LocationEffect(location, loading) ==
    IF location # NoLocation THEN FALSE ELSE loading

\* Home is mounted, isLoading true: initializeScreen up to its await (it asks
\* for the permission unless the provider has it), then the location effect.
OpenHome ==
    /\ homeScreen = "unmounted"
    /\ IF locationPermission # "true"
       THEN /\ RequestLocationPermissionCall
            /\ homeScreen' = "requesting"
       ELSE /\ locMounted
            /\ UNCHANGED locVars
            /\ homeScreen' = "mounted"
    /\ homeLoading' = LocationEffect(currentLocation, TRUE)
    /\ nearbyDrivers' = IF currentLocation # NoLocation
                        THEN mockDrivers(currentLocation) ELSE <<>>

\* Home is unmounted (another screen is shown).
CloseHome ==
    /\ homeScreen # "unmounted"
    /\ homeScreen' = "unmounted"
    /\ homeLoading' = TRUE
    /\ nearbyDrivers' = <<>>
    /\ UNCHANGED locVars

\* The providers are unmounted, and Home, rendered inside them, with them.
HomeTeardown ==
    /\ LocUnmount
    /\ homeScreen' = "unmounted"
    /\ homeLoading' = TRUE
    /\ nearbyDrivers' = <<>>

\* initializeScreen after its await, next to the provider's continuation of
\* requestLocationPermission: `if (!granted) setIsLoading(false)`.
InitializeScreenSettle ==
    IF homeScreen = "requesting"
    THEN /\ homeScreen' = "mounted"
         /\ homeLoading' = IF locOp'.ret # "true" THEN FALSE ELSE homeLoading
         /\ UNCHANGED nearbyDrivers
    ELSE UNCHANGED homeVars

\* Home rendered again because the LocationProvider's state changed: the
\* location effect runs if currentLocation is another object.
HomeRender ==
    LET runs == homeScreen # "unmounted" /\ currentLocation' # currentLocation
    IN  /\ homeLoading' = IF runs
                          THEN LocationEffect(currentLocation', homeLoading)
                          ELSE homeLoading
        /\ nearbyDrivers' = IF runs /\ currentLocation' # NoLocation
                            THEN mockDrivers(currentLocation')
                            ELSE nearbyDrivers
        /\ UNCHANGED homeScreen

\* ----------------------------------------------------------- specifications
vars == <<locVars, sockVars, roomVars, evVars, mathVars, bookVars, authVars,
         homeVars>>

Init ==
    /\ LocInit /\ SockInit /\ RoomInit /\ EvInit /\ MathInit /\ BookInit
    /\ AuthInit /\ HomeInit

LocNext ==
    \/ CheckLocationPermissionSettle /\ UNCHANGED <<sockVars, roomVars, evVars, mathVars, bookVars, authVars, homeVars>>
    \/ RequestLocationPermissionCall /\ UNCHANGED <<sockVars, roomVars, evVars, mathVars, bookVars, authVars, homeVars>>
    \/ RequestLocationPermissionSettle /\ UNCHANGED <<sockVars, roomVars, evVars, mathVars, bookVars, authVars, homeVars>>
    \/ GetCurrentLocationCall /\ UNCHANGED <<sockVars, roomVars, evVars, mathVars, bookVars, authVars, homeVars>>
    \/ GetCurrentPositionResolve /\ UNCHANGED <<sockVars, roomVars, evVars, mathVars, bookVars, authVars, homeVars>>
    \/ GetCurrentPositionReject /\ UNCHANGED <<sockVars, roomVars, evVars, mathVars, bookVars, authVars, homeVars>>
    \/ StartLocationTracking /\ UNCHANGED <<sockVars, roomVars, evVars, mathVars, bookVars, authVars, homeVars>>
    \/ WatchPositionResolve /\ UNCHANGED <<sockVars, roomVars, evVars, mathVars, bookVars, authVars, homeVars>>
    \/ PlatformSample /\ UNCHANGED <<sockVars, roomVars, evVars, mathVars, bookVars, authVars, homeVars>>
    \/ WatchCallback /\ UNCHANGED <<sockVars, roomVars, evVars, mathVars, bookVars, authVars, homeVars>>
    \/ StopLocationTracking /\ UNCHANGED <<sockVars, roomVars, evVars, mathVars, bookVars, authVars, homeVars>>
    \/ LocUnmount /\ UNCHANGED <<sockVars, roomVars, evVars, mathVars, bookVars, authVars, homeVars>>

\* The provider state a consumer sees after the step, recorded when the
\* channel is then Disconnected or Reconnecting.
ObserveView ==
    otherViews' =
        IF socket' = NoSocket \/ sock'[socket'].phase = "reconnecting"
        THEN otherViews \cup {<<socket' # NoSocket, isConnected'>>}
        ELSE otherViews

SockNext ==
    \/ Login /\ ObserveView /\ UNCHANGED <<locVars, roomVars, evVars, mathVars, bookVars, authVars, homeVars>>
    \/ Logout /\ ObserveView /\ UNCHANGED <<locVars, roomVars, evVars, mathVars, bookVars, authVars, homeVars>>
    \/ UpdateProfile /\ ObserveView /\ UNCHANGED <<locVars, roomVars, evVars, mathVars, bookVars, authVars, homeVars>>
    \/ SockUnmount /\ ObserveView /\ UNCHANGED <<locVars, roomVars, evVars, mathVars, bookVars, authVars, homeVars>>
    \/ \E s \in SocketIds : TransportUp(s) /\ ObserveView /\ UNCHANGED <<locVars, roomVars, evVars, mathVars, bookVars, authVars, homeVars>>
    \/ \E s \in SocketIds : TransportDrop(s) /\ ObserveView /\ UNCHANGED <<locVars, roomVars, evVars, mathVars, bookVars, authVars, homeVars>>
    \/ \E s \in SocketIds : ConnectError(s) /\ ObserveView /\ UNCHANGED <<locVars, roomVars, evVars, mathVars, bookVars, authVars, homeVars>>
    \/ \E s \in SocketIds : ReconnectAttemptFails(s) /\ ObserveView /\ UNCHANGED <<locVars, roomVars, evVars, mathVars, bookVars, authVars, homeVars>>
    \/ JoinTripRoom /\ ObserveView /\ UNCHANGED <<locVars, roomVars, evVars, mathVars, bookVars, authVars, homeVars>>
    \/ LeaveTripRoom /\ ObserveView /\ UNCHANGED <<locVars, roomVars, evVars, mathVars, bookVars, authVars, homeVars>>
    \/ UpdateDriverLocation /\ ObserveView /\ UNCHANGED <<locVars, roomVars, evVars, mathVars, bookVars, authVars, homeVars>>
    \/ UpdateTripStatus /\ ObserveView /\ UNCHANGED <<locVars, roomVars, evVars, mathVars, bookVars, authVars, homeVars>>
    \/ AcceptTripRequest /\ ObserveView /\ UNCHANGED <<locVars, roomVars, evVars, mathVars, bookVars, authVars, homeVars>>
    \/ RejectTripRequest /\ ObserveView /\ UNCHANGED <<locVars, roomVars, evVars, mathVars, bookVars, authVars, homeVars>>
    \/ SendMessage /\ ObserveView /\ UNCHANGED <<locVars, roomVars, evVars, mathVars, bookVars, authVars, homeVars>>

\* The SocketProvider with the room membership its packets produce.
RoomNext ==
    \/ Login /\ ObserveView /\ TrackRooms /\ UNCHANGED <<locVars, evVars, mathVars, bookVars, authVars, homeVars>>
    \/ Logout /\ ObserveView /\ TrackRooms /\ UNCHANGED <<locVars, evVars, mathVars, bookVars, authVars, homeVars>>
    \/ UpdateProfile /\ ObserveView /\ TrackRooms /\ UNCHANGED <<locVars, evVars, mathVars, bookVars, authVars, homeVars>>
    \/ SockUnmount /\ ObserveView /\ TrackRooms /\ UNCHANGED <<locVars, evVars, mathVars, bookVars, authVars, homeVars>>
    \/ \E s \in SocketIds : TransportUp(s) /\ ObserveView /\ TrackRooms /\ UNCHANGED <<locVars, evVars, mathVars, bookVars, authVars, homeVars>>
    \/ \E s \in SocketIds : TransportDrop(s) /\ ObserveView /\ TrackRooms /\ UNCHANGED <<locVars, evVars, mathVars, bookVars, authVars, homeVars>>
    \/ \E s \in SocketIds : ConnectError(s) /\ ObserveView /\ TrackRooms /\ UNCHANGED <<locVars, evVars, mathVars, bookVars, authVars, homeVars>>
    \/ \E s \in SocketIds : ReconnectAttemptFails(s) /\ ObserveView /\ TrackRooms /\ UNCHANGED <<locVars, evVars, mathVars, bookVars, authVars, homeVars>>
    \/ JoinTripRoom /\ ObserveView /\ TrackRooms /\ UNCHANGED <<locVars, evVars, mathVars, bookVars, authVars, homeVars>>
    \/ LeaveTripRoom /\ ObserveView /\ TrackRooms /\ UNCHANGED <<locVars, evVars, mathVars, bookVars, authVars, homeVars>>

\* The SocketProvider with its rooms, the callers' subscriptions and the
\* events of the server.
EventNext ==
    \/ nextSocket <= MaxEventSockets /\ Login /\ ObserveView /\ TrackRooms /\ TrackInbound /\ UNCHANGED <<locVars, mathVars, bookVars, authVars, homeVars>>
    \/ Logout /\ ObserveView /\ TrackRooms /\ TrackInbound /\ UNCHANGED <<locVars, mathVars, bookVars, authVars, homeVars>>
    \/ nextSocket <= MaxEventSockets /\ UpdateProfile /\ ObserveView /\ TrackRooms /\ TrackInbound /\ UNCHANGED <<locVars, mathVars, bookVars, authVars, homeVars>>
    \/ \E s \in SocketIds : TransportUp(s) /\ ObserveView /\ TrackRooms /\ TrackInbound /\ UNCHANGED <<locVars, mathVars, bookVars, authVars, homeVars>>
    \/ \E s \in SocketIds : TransportDrop(s) /\ ObserveView /\ TrackRooms /\ TrackInbound /\ UNCHANGED <<locVars, mathVars, bookVars, authVars, homeVars>>
    \/ JoinTripRoom /\ ObserveView /\ TrackRooms /\ TrackInbound /\ UNCHANGED <<locVars, mathVars, bookVars, authVars, homeVars>>
    \/ LeaveTripRoom /\ ObserveView /\ TrackRooms /\ TrackInbound /\ UNCHANGED <<locVars, mathVars, bookVars, authVars, homeVars>>
    \/ \E k \in Kinds, h \in Handlers : Subscribe(k, h) /\ ObserveView /\ TrackRooms /\ UNCHANGED <<locVars, mathVars, bookVars, authVars, homeVars>>
    \/ \E i \in 1..Cardinality(Handlers) : Unsubscribe(i) /\ ObserveView /\ TrackRooms /\ UNCHANGED <<locVars, mathVars, bookVars, authVars, homeVars>>
    \/ \E s \in SocketIds, k \in Kinds : ServerSend(s, k) /\ ObserveView /\ TrackRooms /\ UNCHANGED <<locVars, mathVars, bookVars, authVars, homeVars>>
    \/ Receive /\ ObserveView /\ TrackRooms /\ UNCHANGED <<locVars, mathVars, bookVars, authVars, homeVars>>

\* A trip of a user who logs in once: the SocketProvider with its rooms next
\* to the LocationProvider's watch.
TripNext ==
    \/ socket = NoSocket /\ Login /\ ObserveView /\ TrackRooms /\ UNCHANGED <<locVars, evVars, mathVars, bookVars, authVars, homeVars>>
    \/ \E s \in SocketIds : TransportUp(s) /\ ObserveView /\ TrackRooms /\ UNCHANGED <<locVars, evVars, mathVars, bookVars, authVars, homeVars>>
    \/ JoinTripRoom /\ ObserveView /\ TrackRooms /\ UNCHANGED <<locVars, evVars, mathVars, bookVars, authVars, homeVars>>
    \/ LeaveTripRoom /\ ObserveView /\ TrackRooms /\ UNCHANGED <<locVars, evVars, mathVars, bookVars, authVars, homeVars>>
    \/ CheckLocationPermissionSettle /\ UNCHANGED <<sockVars, roomVars, evVars, mathVars, bookVars, authVars, homeVars>>
    \/ StartLocationTracking /\ UNCHANGED <<sockVars, roomVars, evVars, mathVars, bookVars, authVars, homeVars>>
    \/ WatchPositionResolve /\ UNCHANGED <<sockVars, roomVars, evVars, mathVars, bookVars, authVars, homeVars>>
    \/ StopLocationTracking /\ UNCHANGED <<sockVars, roomVars, evVars, mathVars, bookVars, authVars, homeVars>>

\* The calls of the ETA and fare computations.
MathNext ==
    \/ CalculateETA /\ UNCHANGED <<locVars, sockVars, roomVars, evVars, bookVars, authVars, homeVars>>
    \/ Fare /\ UNCHANGED <<locVars, sockVars, roomVars, evVars, bookVars, authVars, homeVars>>
    \/ MathReturn /\ UNCHANGED <<locVars, sockVars, roomVars, evVars, bookVars, authVars, homeVars>>

\* The booking screen and the location it reads from the LocationProvider.
BookNext ==
    \/ OpenBooking /\ UNCHANGED <<sockVars, roomVars, evVars, mathVars, authVars, homeVars>>
    \/ CloseBooking /\ UNCHANGED <<sockVars, roomVars, evVars, mathVars, authVars, homeVars>>
    \/ SelectVehicle /\ UNCHANGED <<sockVars, roomVars, evVars, mathVars, authVars, homeVars>>
    \/ SetDropoffAddress /\ UNCHANGED <<sockVars, roomVars, evVars, mathVars, authVars, homeVars>>
    \/ CheckLocationPermissionSettle /\ BookRender /\ UNCHANGED <<sockVars, roomVars, evVars, mathVars, authVars, homeVars>>
    \/ GetCurrentLocationCall /\ BookRender /\ UNCHANGED <<sockVars, roomVars, evVars, mathVars, authVars, homeVars>>
    \/ GetCurrentPositionResolve /\ BookRender /\ UNCHANGED <<sockVars, roomVars, evVars, mathVars, authVars, homeVars>>
    \/ GetCurrentPositionReject /\ BookRender /\ UNCHANGED <<sockVars, roomVars, evVars, mathVars, authVars, homeVars>>

\* AuthProvider and the sockets its credentials create.
AuthNext ==
    \/ CheckAuthStatus /\ ObserveView /\ UNCHANGED <<locVars, roomVars, evVars, mathVars, bookVars, homeVars>>
    \/ \E kind \in RequestKinds : AuthCall(kind) /\ ObserveView /\ UNCHANGED <<locVars, roomVars, evVars, mathVars, bookVars, homeVars>>
    \/ \E r \in requests, outcome \in Outcomes : AuthSettle(r, outcome) /\ ObserveView /\ UNCHANGED <<locVars, roomVars, evVars, mathVars, bookVars, homeVars>>
    \/ AuthLogout /\ ObserveView /\ UNCHANGED <<locVars, roomVars, evVars, mathVars, bookVars, homeVars>>
    \/ AuthReload /\ ObserveView /\ UNCHANGED <<locVars, roomVars, evVars, mathVars, bookVars, homeVars>>

\* The Home screen and the LocationProvider's permission and single-shot fix.
HomeNext ==
    \/ OpenHome /\ UNCHANGED <<sockVars, roomVars, evVars, mathVars, bookVars, authVars>>
    \/ CloseHome /\ UNCHANGED <<sockVars, roomVars, evVars, mathVars, bookVars, authVars>>
    \/ HomeTeardown /\ UNCHANGED <<sockVars, roomVars, evVars, mathVars, bookVars, authVars>>
    \/ CheckLocationPermissionSettle /\ HomeRender /\ UNCHANGED <<sockVars, roomVars, evVars, mathVars, bookVars, authVars>>
    \/ RequestLocationPermissionSettle /\ InitializeScreenSettle /\ UNCHANGED <<sockVars, roomVars, evVars, mathVars, bookVars, authVars>>
    \/ GetCurrentPositionResolve /\ HomeRender /\ UNCHANGED <<sockVars, roomVars, evVars, mathVars, bookVars, authVars>>
    \/ GetCurrentPositionReject /\ HomeRender /\ UNCHANGED <<sockVars, roomVars, evVars, mathVars, bookVars, authVars>>

\* the LocationProvider alone, the SocketProvider alone, the SocketProvider
\* with its rooms, with its rooms and events, and next to the LocationProvider
LocSpec == Init /\ [][LocNext]_vars
SockSpec == Init /\ [][SockNext]_vars
RoomSpec == Init /\ [][RoomNext]_vars
EventSpec == Init /\ [][EventNext]_vars
TripSpec == Init /\ [][TripNext]_vars
MathSpec == Init /\ [][MathNext]_vars
BookSpec == Init /\ [][BookNext]_vars
AuthSpec == Init /\ [][AuthNext]_vars
HomeSpec == Init /\ [][HomeNext]_vars
\* The platform settles every promise it handed out; nothing obliges the user
\* to leave the screen.
HomeLive ==
    /\ HomeSpec
    /\ WF_vars(CheckLocationPermissionSettle /\ HomeRender /\ UNCHANGED <<sockVars, roomVars, evVars, mathVars, bookVars, authVars>>)
    /\ WF_vars(RequestLocationPermissionSettle /\ InitializeScreenSettle /\ UNCHANGED <<sockVars, roomVars, evVars, mathVars, bookVars, authVars>>)
    /\ WF_vars((GetCurrentPositionResolve \/ GetCurrentPositionReject) /\ HomeRender /\ UNCHANGED <<sockVars, roomVars, evVars, mathVars, bookVars, authVars>>)

\* ------------------------------------------------- claims on LocationProvider

\* C1: at most one hardware location watch is registered at any time, for any
\* interleaving of start calls, stop calls and the delivery of the watch id.
C1_AtMostOneWatch == Cardinality(watches) <= 1

\* C2: a sample whose callback runs after stopLocationTracking was called for
\* its session is discarded: the callback neither sets currentLocation nor
\* reaches the consumer's onLocationUpdate.
C2_StaleSampleDiscarded ==
    (locOp.name = "watchCallback" /\ locOp.stale) => ~locOp.notified

\* C3: stopLocationTracking returns true exactly when a session existed at the
\* call (a hardware watch was registered, its id delivered or not), and then
\* no hardware watch is left; it returns false exactly when none existed.
C3_StopReturnsWhetherStopped ==
    [][locOp'.name = "stopLocationTracking" =>
          /\ (locOp'.ret = "true") <=> (watches # {})
          /\ (locOp'.ret = "false") <=> (watches = {})
          /\ watches' = {}]_vars

\* C4: once the provider is unmounted no hardware watch is left registered and
\* no watch callback runs.
C4_TeardownDestroysSession ==
    ~locMounted => (watches = {} /\ locOp.name # "watchCallback")

\* C5: startLocationTracking called while locationPermission is false or null
\* returns false, registers no hardware watch and leaves isTracking, watchId
\* and currentLocation as they were.
C5_StartWithoutPermissionFails ==
    [][(locOp'.name = "startLocationTracking" /\ locationPermission # "true") =>
          /\ locOp'.ret = "false"
          /\ UNCHANGED <<watches, watchPending, nextWatch, isTracking, watchId,
                         currentLocation>>]_vars

\* C5 witness: a start call has just been refused for want of permission.
C5_Witness ==
    /\ locOp.name = "startLocationTracking"
    /\ locOp.ret = "false"
    /\ locationPermission \in {"null", "false"}
    /\ watches = {}

\* C6: whatever the platform's permission call does (granted, denied, left at
\* the prompt, or an error), requestLocationPermission resolves to a boolean,
\* never rejects, and resolves to false unless the permission is 'granted'.
C6_RequestFailsClosed ==
    locOp.name = "requestLocationPermissionSettled" =>
        /\ locOp.ret \in {"true", "false"}
        /\ (locOp.outcome # "granted") => (locOp.ret = "false")
        /\ (locOp.outcome = "granted") => (locOp.ret = "true")

\* C6 witness: the platform call failed and the request resolved to false.
C6_Witness ==
    /\ locOp.name = "requestLocationPermissionSettled"
    /\ locOp.outcome = "error"
    /\ locOp.ret = "false"

\* --------------------------------------------------- claims on SocketProvider

\* The packets a step handed to socket.emit, put on the transport, or added to
\* a send buffer, that are in the set P.
Range(seq) == {seq[i] : i \in DOMAIN seq}
InBuffer(ss, s, P) == {i \in DOMAIN ss[s].sendBuffer : ss[s].sendBuffer[i] \in P}
NoneOf(P) ==
    /\ \A e \in Range(emitted') : e[2] \notin P
    /\ \A w \in Range(wire') : w[2] \notin P
    /\ \A s \in SocketIds :
          Cardinality(InBuffer(sock', s, P)) <= Cardinality(InBuffer(sock, s, P))

TripRoomPackets ==
    {Packet(ev, TripRoom(tripId)) : ev \in {"join-room", "leave-room"}, tripId \in Trips}

\* C8: joinTripRoom and leaveTripRoom called while the channel is not Connected
\* are no-ops: no join-room / leave-room of a trip room is handed to the
\* socket, sent, or kept to be sent when the channel connects.
C8_JoinLeaveNoOpUnlessConnected ==
    [][~ChannelConnected => NoneOf(TripRoomPackets)]_vars

EmissionPackets ==
    {p \in [ev : {"location-update", "trip-status-update", "accept-trip",
                  "reject-trip", "send-message"},
            arg : {<<tripId>> : tripId \in Trips}
                  \cup {<<tripId, u.id>> : tripId \in Trips, u \in Users}] : TRUE}

\* C9: an emission requested while the channel is not Connected sends nothing
\* and is not queued; a request made while it is Connected sends one packet.
C9_EmitOnlyWhenConnected ==
    [][/\ ~ChannelConnected => NoneOf(EmissionPackets)
       /\ Cardinality({i \in DOMAIN wire' : wire'[i][2] \in EmissionPackets}) <= 1]_vars

\* C10: every transition of a socket into connected (first handshake or
\* reconnect) makes exactly two socket.emit calls, join-room of the user room
\* and of the role room of the user the socket was created for, which is the
\* provider's user when the socket is the provider's; no trip room is joined.
C10_ConnectJoinsStandingRooms ==
    [][\A s \in SocketIds :
          (sock[s].phase # "connected" /\ sock'[s].phase = "connected") =>
              /\ emitted' = <<<<s, Packet("join-room", UserRoom(sock[s].user))>>,
                              <<s, Packet("join-room", RoleRoom(sock[s].user))>>>>
              /\ sock[s].user \in Users
              /\ (sockMounted /\ s = socket) => sock[s].user = user]_vars

\* C10 witness: the channel has been Reconnecting, and the provider's socket has just connected
\* and joined the two standing rooms of the user.
C10_Witness ==
    /\ ChannelConnected
    /\ <<TRUE, FALSE>> \in otherViews
    /\ emitted = <<<<socket, Packet("join-room", UserRoom(user))>>,
                   <<socket, Packet("join-room", RoleRoom(user))>>>>

\* ---------------------------------------------------- claims on room membership
\* The step is a credential loss, or the provider's teardown (the explicit
\* disconnect of its effect cleanup).
CredentialLossOrDisconnect ==
    \/ token # NoToken /\ user # NoUser /\ (token' = NoToken \/ user' = NoUser)
    \/ sockMounted /\ ~sockMounted'

\* The channel is Connected, Reconnecting or Failed.
ChannelUp ==
    /\ socket # NoSocket
    /\ sock[socket].phase \in {"connected", "reconnecting", "failed"}

\* C11: from Connected, Reconnecting or Failed, a credential loss or an explicit
\* disconnect leaves the channel Disconnected, its transport closed and its
\* room membership cleared; and no other step closes the channel's transport or
\* clears its room membership.
C11_OnlyDisconnectClosesAndClears ==
    [][ChannelUp =>
          /\ CredentialLossOrDisconnect =>
                /\ sock'[socket].phase = "closed"
                /\ rooms'[socket] = {}
                /\ sockMounted' => (socket' = NoSocket /\ ~isConnected')
          /\ ~CredentialLossOrDisconnect =>
                /\ sock'[socket].phase # "closed"
                /\ rooms[socket] # {} => rooms'[socket] # {}]_vars

\* C13: when the provider's socket is Connected again after a drop, the rooms
\* of its connection are the rooms it had when the transport went down.
C13_ReconnectRestoresRooms ==
    [][\A s \in SocketIds :
          (/\ s = socket
           /\ sock[s].phase = "reconnecting"
           /\ beforeDrop[s] # {}
           /\ sock'[s].phase = "connected")
              => rooms'[s] = beforeDrop[s]]_vars

\* ------------------------------------------------------ claims on subscriptions
\* The handlers subscribed to a kind and not unsubscribed, in subscription order.
SubscribedTo(kind) ==
    LET own == SelectSeq(subscribed, LAMBDA e : e.kind = kind)
    IN  [i \in 1..Len(own) |-> own[i].handler]

\* C12: an event that arrives on the channel invokes every handler subscribed
\* to its kind and not yet unsubscribed, in subscription order, whatever
\* happened to the connection between the subscription and the arrival.
C12_EveryHandlerInvokedInOrder ==
    (delivered # NoDelivery /\ delivered.socket = socket)
        => delivered.handlers = SubscribedTo(delivered.kind)

\* C14: a driver-location event that arrives after the trip room was left (the
\* server sends it to the members of a trip room only, so the connection it
\* arrives on left the room after it was sent) invokes no handler.
C14_NoDeliveryAfterLeave ==
    (/\ delivered # NoDelivery
     /\ delivered.kind = "driver-location"
     /\ TripRoomsIn(rooms[delivered.socket]) = {})
        => delivered.handlers = <<>>

\* ------------------------------------------------- claims on watch and trip room
\* The provider's socket is in a trip room.
TripRoomJoined == socket # NoSocket /\ TripRoomsIn(rooms[socket]) # {}

\* C15: no location watch outlives its trip room: a step that ends the
\* membership of the trip room while a watch is active leaves no watch active.
C15_NoWatchOutlivesTripRoom ==
    [][(watches # {} /\ TripRoomJoined /\ ~TripRoomJoined') => watches' = {}]_vars

\* ------------------------------------------------------ claims on ETA and fare
\* C16: for a distance d >= 0 and a speed s > 0, calculateETA(d, s) is the
\* least integer m with m * s >= d * 60 (d in quarter kilometres here).
C16_EtaIsLeastMinutes ==
    (mathOp.name = "calculateETA" /\ mathOp.distance >= 0) =>
        /\ mathOp.ret * mathOp.averageSpeed * KmUnit >= mathOp.distance * 60
        /\ (mathOp.ret - 1) * mathOp.averageSpeed * KmUnit < mathOp.distance * 60

\* four times baseFare + distanceKm * perKmRate + etaMinutes * perMinuteRate of
\* the call
ExactFare4 ==
    LET v == Vehicle(mathOp.vehicle)
    IN  KmUnit * v.baseFare + mathOp.distance * v.perKmRate
        + mathOp.minutes * v.perMinuteRate4

C18_FareIsMonotonic ==
    mathOp.name = "fare" =>
        LET v == Vehicle(mathOp.vehicle)
        IN  /\ fare(v, mathOp.distance + 1, mathOp.minutes) >= mathOp.ret
            /\ fare(v, mathOp.distance, mathOp.minutes + 1) >= mathOp.ret

\* C18 witness: a fare for a distance and an ETA above 0, which is above the
\* fare for the same distance and no time.
C18_Witness ==
    /\ mathOp.name = "fare"
    /\ mathOp.distance > 0
    /\ mathOp.minutes > 0
    /\ mathOp.ret > fare(Vehicle(mathOp.vehicle), mathOp.distance, 0)

\* C19: a call with a negative distance fails with an error; it returns no ETA.
C19_NegativeDistanceFails ==
    (mathOp.name = "calculateETA" /\ mathOp.distance < 0) => mathOp.threw

\* --------------------------------------------------- claims on the booking screen
\* C20: after every step of the screen or of the location it reads, the quote
\* shown is the one computed from the current pickup position (and its
\* dropoff) and the vehicle class now selected; and a step that changes only
\* the vehicle class changes the fare and nothing else.
C20_QuoteIsCurrent ==
    [][/\ (bookMounted' /\ currentLocation' # NoLocation)
            => quote' = calculateTripDetails(currentLocation', selectedVehicle')
       /\ (bookMounted /\ bookMounted' /\ selectedVehicle' # selectedVehicle)
            => /\ distance' = distance
               /\ estimatedTime' = estimatedTime
               /\ dropoffAddress' = dropoffAddress
               /\ currentLocation' = currentLocation]_vars

\* C20 witness: the screen shows the quote of a class other than the first one
\* selected, for a position whose quote it had shown before.
C20_Witness ==
    /\ bookMounted
    /\ currentLocation # NoLocation
    /\ selectedVehicle = "premium"
    /\ dropoffAddress = "somewhere"
    /\ estimatedFare = fare(Vehicle("premium"), calculateDistance(currentLocation),
                            estimatedTime)
    /\ estimatedFare > 0

\* ------------------------------------------- claims on the sockets' lifetime
\* The sockets io() created that socket.disconnect() has not closed.
LiveSockets == {s \in SocketIds : sock[s].phase \notin {"unused", "closed"}}

\* C21: at most one socket that has not been disconnected exists at any time,
\* over every sequence of login, profile update, logout and unmount; and once
\* the provider is unmounted no socket remains connected.
C21_AtMostOneLiveSocket ==
    /\ Cardinality(LiveSockets) <= 1
    /\ ~sockMounted => \A s \in SocketIds : sock[s].phase # "connected"

\* A connection event ('connect', 'disconnect', 'connect_error', 'reconnect',
\* 'reconnect_failed') of socket s: its transport changed phase and no handler
\* of the provider ran.
ConnectionEventOf(s) ==
    /\ sock'[s].phase # sock[s].phase
    /\ sock[s].phase \in {"connecting", "connected", "reconnecting"}
    /\ sock'[s].phase \in {"connected", "reconnecting", "failed"}
    /\ <<token, user, socket, sockMounted>>' = <<token, user, socket, sockMounted>>

\* C24: isConnected is true only if the provider has a socket and that socket's
\* transport is connected, and a connection event of a socket that is not the
\* provider's socket never changes isConnected.
C24_IsConnectedIsTruthful ==
    [][/\ isConnected' => (socket' # NoSocket /\ sock'[socket'].phase = "connected")
       /\ \A s \in SocketIds :
            (s # socket /\ ConnectionEventOf(s)) => isConnected' = isConnected]_vars

\* -------------------------------------------------- claims on AuthProvider
\* C22: once logout has completed, token and user stay null and localStorage
\* holds neither 'authToken' nor 'user', until a login or register started
\* after the logout succeeds; a response to a request started before the
\* logout restores nothing.
C22_LogoutIsFinal ==
    sinceLogout => /\ token = NoToken
                   /\ user = NoUser
                   /\ storage = NoStorage

HomeSettled ==
    /\ homeScreen = "mounted"
    /\ ~checkPending
    /\ ~requestPending
    /\ fixPending = 0

\* C25: once the permission check/request and the single-shot fix have
\* resolved, the loading state of Home eventually ends (or Home is left),
\* whatever the outcome was.
C25_LoadingEnds == HomeSettled ~> (~homeLoading \/ homeScreen = "unmounted")

====
